---- MODULE Spec2Model ----
(***************************************************************************)
(* hospital_tj: a directory of hospitals and their priced services with    *)
(* comments and ranks.  The model covers the tables of our_service.models, *)
(* the comment and rank endpoints of api.views with their permission       *)
(* class, the price filter of api.filters and the admin site's add and     *)
(* delete forms.                                                           *)
(*                                                                         *)
(* Representation.  A table is a function from primary key to row.  A null *)
(* foreign key is None.  average_rank is kept in tenths: the float 7.3 is  *)
(* the integer 73.  The prices, floats in the code, are whole numbers.  An *)
(* HTTP response is its status, its error detail and the primary keys of   *)
(* the objects it renders.  The project's settings are not among the       *)
(* sources: the model takes Django's and the REST framework's defaults     *)
(* (autocommit, no ATOMIC_REQUESTS, AllowAny where a viewset names no      *)
(* permission class).                                                      *)
(***************************************************************************)
EXTENDS Integers, Sequences, FiniteSets, TLC

\* ------------------------------------------------------------- bounds
\* Spec: the users, and the comments and ranks ever created
NumUsers == 2
MaxRows == 1
\* SpecDuplicate: the ranks ever created
DupRanks == 2
\* SpecLedger: the users who rank, and the ranks ever created
LedgerUsers == 3
LedgerRanks == 3
\* SpecComment: the comments ever created
MaxComments == 2
\* SpecRace: the workers, and the ranks ever created
NumWorkers == 2
RaceRanks == 2
\* SpecPrice: the services ever created
MaxServices == 2
\* SpecCatalog: the hospitals, the services ever created, and the comments and
\* ranks ever created
CatalogHospitals == 1
CatalogServices == 1
CatalogRows == 2
\* SpecFrame: the comments and ranks ever created
FrameRows == 2

None == 0
AnonymousUser == 0

Users == 1..NumUsers
Callers == {AnonymousUser} \cup Users
Routes == {"hospitals", "services"}

VARIABLES
    Category,   \* the slugs of the stored categories
    Hospital,   \* slug -> [category, average_rank]
    Service,    \* id -> [category, average_rank, hospital, price, min_price, max_price]
    Comment,    \* id -> [author, text, service, hospital]
    Rank,       \* id -> [author, value, service, hospital]
    nextId,     \* the auto-increment primary keys: [Service, Comment, Rank]
    response,   \* the response to the last request: [status, detail, data]
    inflight    \* worker -> the createRank it is in the middle of: [pc, row, average]

vars == <<Category, Hospital, Service, Comment, Rank, nextId, response, inflight>>

\* The server's workers, each serving one request at a time.  A worker at
\* "idle" is between requests.
Workers == 1..NumWorkers

Idle == [pc |-> "idle", row |-> <<>>, average |-> 0]

\* ------------------------------------------------------------- tables
Put(table, pk, row) ==
    [x \in DOMAIN table \cup {pk} |-> IF x = pk THEN row ELSE table[x]]

Drop(table, pks) == [x \in DOMAIN table \ pks |-> table[x]]

EmptyTable == [x \in {} |-> 0]

\* The response: its status, its error detail and the primary keys of the
\* objects its body renders.
Respond(status, detail, data) ==
    response' = [status |-> status, detail |-> detail, data |-> data]

\* ------------------------------------------------------------- Rank.save
\* round(total / count, 1), in tenths.  The quotient of two small integers is
\* within 2^-53 of k/10 + 1/20 only when it equals it, and then it is a
\* multiple of 1/4, which a float holds exactly: Python rounds that tie to the
\* even tenth.
\* total / count cut to a tenth, as int(10 * total / count) / 10 would
round_down(total, count) == (10 * total) \div count

round(total, count) ==
    LET q == (10 * total) \div count
        r == (10 * total) % count
    IN  IF 2 * r < count THEN q
        ELSE IF 2 * r > count THEN q + 1
        ELSE IF q % 2 = 0 THEN q ELSE q + 1

all_ranks(rank, service, hospital) ==
    IF service # None
    THEN {r \in DOMAIN rank : rank[r].service = service}
    ELSE {r \in DOMAIN rank : rank[r].hospital = hospital}

RECURSIVE total_rank(_, _)
total_rank(rank, ids) ==
    IF ids = {} THEN 0
    ELSE LET r == CHOOSE x \in ids : TRUE
         IN  rank[r].value + total_rank(rank, ids \ {r})

average_rank(rank, service, hospital) ==
    LET ranks == all_ranks(rank, service, hospital)
    IN  IF Cardinality(ranks) # 0
        THEN round(total_rank(rank, ranks), Cardinality(ranks))
        ELSE 0

\* an UPDATE of the average that names no row: every target takes it
write_average_all(service, hospital, average) ==
    /\ Service' = [pk \in DOMAIN Service |->
                      [Service[pk] EXCEPT !.average_rank = average]]
    /\ Hospital' = [pk \in DOMAIN Hospital |->
                       [Hospital[pk] EXCEPT !.average_rank = average]]

\* obj.average_rank = average_rank; obj.save()
write_average(service, hospital, average) ==
    IF service # None
    THEN /\ Service' = [Service EXCEPT ![service].average_rank = average]
         /\ UNCHANGED Hospital
    ELSE /\ Hospital' = [Hospital EXCEPT ![hospital].average_rank = average]
         /\ UNCHANGED Service

Rank_save(pk, row) ==
    LET saved == Put(Rank, pk, row)
    IN  /\ Rank' = saved
        /\ write_average(row.service, row.hospital,
                         average_rank(saved, row.service, row.hospital))

\* ------------------------------------------------------------- permissions
SAFE_METHODS == {"GET", "HEAD", "OPTIONS"}

is_authenticated(user) == user # AnonymousUser

has_permission(method, user) ==
    method \in SAFE_METHODS \/ is_authenticated(user)

has_object_permission(method, user, obj) ==
    IF method \in SAFE_METHODS THEN TRUE ELSE obj.author = user

\* ------------------------------------------------------------- serializers
\* Meta.fields of each serializer, and the attributes its model has (the
\* fields of models.py with the primary key Django adds).  A ModelSerializer
\* builds its fields when it renders an object and raises ImproperlyConfigured
\* for a name that is none of the model's.
SerializerFields(model) ==
    CASE model = "Category" -> {"slug", "title", "description"}
      [] model = "Hospital" -> {"name", "description", "slug", "category",
                                "work_time", "average_rank", "small_image",
                                "big_image", "is_on_main"}
      [] model = "Service" -> {"id", "name", "description", "category", "price",
                               "min_price", "max_price", "hospital",
                               "average_rank"}
      [] model = "Comment" -> {"id", "text", "author", "created_at",
                               "updated_at", "service", "hospital"}
      [] model = "Rank" -> {"id", "value", "author", "created_at",
                            "updated_at", "service", "hospital"}

ModelFields(model) ==
    CASE model = "Category" -> {"id", "title", "description", "slug"}
      [] model = "Hospital" -> {"id", "name", "description", "average_rank",
                                "category", "slug", "work_time", "small_image",
                                "big_image"}
      [] model = "Service" -> {"id", "name", "description", "average_rank",
                               "category", "price", "min_price", "max_price",
                               "hospital"}
      [] model = "Comment" -> {"id", "author", "created_at", "updated_at",
                               "text", "service", "hospital"}
      [] model = "Rank" -> {"id", "author", "created_at", "updated_at",
                            "value", "service", "hospital"}

\* The fields a client may write: Meta.fields less read_only_fields and the
\* fields the model does not let a form edit.
\* the writable fields of a serializer whose read_only_fields left out
\* service and hospital
WritableTargets(model) ==
    SerializerFields(model) \ {"id", "author", "created_at", "updated_at"}

WritableFields(model) ==
    CASE model = "Comment" -> SerializerFields("Comment") \
                              {"id", "author", "created_at", "updated_at",
                               "service", "hospital"}
      [] model = "Rank" -> SerializerFields("Rank") \
                           {"id", "author", "created_at", "updated_at",
                            "service", "hospital"}

\* The response that renders the objects `pks` of `model`.
Render(model, ok, pks) ==
    IF pks # {} /\ ~(SerializerFields(model) \subseteq ModelFields(model))
    THEN Respond(500, "ImproperlyConfigured", {})
    ELSE Respond(ok, "", pks)

\* ------------------------------------------------------------- views
Table(model) == IF model = "Rank" THEN Rank ELSE Comment

\* get_object_or_404 on the target the URL names
TargetExists(route, key) ==
    IF route = "services" THEN key \in DOMAIN Service
    ELSE key \in DOMAIN Hospital

\* get_queryset: the target's service_comment, hospital_comment, service_rank
\* or hospital_rank rows
get_queryset(table, route, key) ==
    IF route = "services"
    THEN {pk \in DOMAIN table : table[pk].service = key}
    ELSE {pk \in DOMAIN table : table[pk].hospital = key}

\* The rows Rank.objects.get(author=..., service=...) or (author=...,
\* hospital=...) matches in RankViewSet.perform_create.
\* the rows of a perform_create that looked up the service on both routes
ranked_by_service(rank, user, route, key) ==
    {r \in DOMAIN rank : rank[r].author = user /\ rank[r].service = key}

ranked_by(rank, user, route, key) ==
    IF route = "services"
    THEN {r \in DOMAIN rank : rank[r].author = user /\ rank[r].service = key}
    ELSE {r \in DOMAIN rank : rank[r].author = user /\ rank[r].hospital = key}

\* A request body maps the field names it carries to their values.  The
\* serializer keeps the writable ones: read-only fields are dropped unseen.
validated_data(model, body) ==
    [f \in DOMAIN body \cap WritableFields(model) |-> body[f]]

FieldOr(data, f, default) == IF f \in DOMAIN data THEN data[f] ELSE default

\* perform_create: the keyword arguments of serializer.save, which override
\* what the body gave
perform_create(user, route, key) ==
    IF route = "services" THEN [author |-> user, service |-> key]
    ELSE [author |-> user, hospital |-> key]

\* ModelSerializer.create: the row of the new object
create(model, data) ==
    IF model = "Rank"
    THEN [author |-> data.author, value |-> data.value,
          service |-> FieldOr(data, "service", None),
          hospital |-> FieldOr(data, "hospital", None)]
    ELSE [author |-> data.author, text |-> data.text,
          service |-> FieldOr(data, "service", None),
          hospital |-> FieldOr(data, "hospital", None)]

\* ModelSerializer.update: setattr for every validated field
update(instance, data) ==
    [f \in DOMAIN instance |-> IF f \in DOMAIN data THEN data[f] ELSE instance[f]]

\* The validators of Rank.value, which the serializer's field takes over.
RankValueValid(value) == value >= 0 /\ value <= 10

\* Comment.text is a TextField that may not be blank.
TextValid(text) == text # ""

NoWrite == UNCHANGED <<Category, Hospital, Service, Comment, Rank, nextId, inflight>>

NotAuthenticated ==
    Respond(401, "Authentication credentials were not provided.", {}) /\ NoWrite

NotFound == Respond(404, "Not found.", {}) /\ NoWrite

PermissionDenied ==
    Respond(403, "You do not have permission to perform this action.", {})
    /\ NoWrite

BadRequest(detail) == Respond(400, detail, {}) /\ NoWrite

\* GET on a comment or rank route: ModelViewSet.list
List(user, model, route, key) ==
    IF ~has_permission("GET", user) THEN NotAuthenticated
    ELSE IF ~TargetExists(route, key) THEN NotFound
    ELSE Render(model, 200, get_queryset(Table(model), route, key)) /\ NoWrite

\* GET on one comment or rank: ModelViewSet.retrieve
Retrieve(user, model, route, key, pk) ==
    IF ~has_permission("GET", user) THEN NotAuthenticated
    ELSE IF ~TargetExists(route, key) THEN NotFound
    ELSE IF pk \notin get_queryset(Table(model), route, key) THEN NotFound
    ELSE IF ~has_object_permission("GET", user, Table(model)[pk])
    THEN PermissionDenied
    ELSE Render(model, 200, {pk}) /\ NoWrite

\* DELETE on one comment or rank: ModelViewSet.destroy, instance.delete()
Destroy(user, model, route, key, pk) ==
    IF ~has_permission("DELETE", user) THEN NotAuthenticated
    ELSE IF ~TargetExists(route, key) THEN NotFound
    ELSE IF pk \notin get_queryset(Table(model), route, key) THEN NotFound
    ELSE IF ~has_object_permission("DELETE", user, Table(model)[pk])
    THEN PermissionDenied
    ELSE /\ IF model = "Rank"
            THEN Rank' = Drop(Rank, {pk}) /\ UNCHANGED Comment
            ELSE Comment' = Drop(Comment, {pk}) /\ UNCHANGED Rank
         /\ Respond(204, "", {})
         /\ UNCHANGED <<Category, Hospital, Service, nextId, inflight>>

\* serializer.is_valid: the error of a body, "" when it has none
RankErrors(method, body) ==
    LET data == validated_data("Rank", body)
    IN  IF "value" \notin DOMAIN data
        THEN IF method = "PATCH" THEN "" ELSE "value: This field is required."
        ELSE IF RankValueValid(data.value) THEN "" ELSE "value"

CommentErrors(method, body) ==
    LET data == validated_data("Comment", body)
    IN  IF "text" \notin DOMAIN data
        THEN IF method = "PATCH" THEN "" ELSE "text: This field is required."
        ELSE IF TextValid(data.text) THEN "" ELSE "text"

\* POST on a rank route: RankViewSet.create
CreateRank(user, route, key, body) ==
    IF ~has_permission("POST", user) THEN NotAuthenticated
    ELSE IF RankErrors("POST", body) # "" THEN BadRequest(RankErrors("POST", body))
    ELSE IF ~TargetExists(route, key) THEN NotFound
    ELSE IF Cardinality(ranked_by(Rank, user, route, key)) = 1
    THEN BadRequest("You already ranked.")
    ELSE IF Cardinality(ranked_by(Rank, user, route, key)) > 1
    THEN Respond(500, "MultipleObjectsReturned", {}) /\ NoWrite
    ELSE /\ Rank_save(nextId.Rank,
                      create("Rank", perform_create(user, route, key)
                                     @@ validated_data("Rank", body)))
         /\ nextId' = [nextId EXCEPT !.Rank = @ + 1]
         /\ Render("Rank", 201, {nextId.Rank})
         /\ UNCHANGED <<Category, Comment, inflight>>

\* PUT or PATCH on one rank: ModelViewSet.update, serializer.save()
UpdateRank(user, method, route, key, pk, body) ==
    IF ~has_permission(method, user) THEN NotAuthenticated
    ELSE IF ~TargetExists(route, key) THEN NotFound
    ELSE IF pk \notin get_queryset(Rank, route, key) THEN NotFound
    ELSE IF ~has_object_permission(method, user, Rank[pk]) THEN PermissionDenied
    ELSE IF RankErrors(method, body) # "" THEN BadRequest(RankErrors(method, body))
    ELSE /\ Rank_save(pk, update(Rank[pk], validated_data("Rank", body)))
         /\ Render("Rank", 200, {pk})
         /\ UNCHANGED <<Category, Comment, nextId, inflight>>

\* a comment create with the lookup of the rank create: one comment for each
\* user and target
CreateCommentOnce(user, route, key, body) ==
    IF ~has_permission("POST", user) THEN NotAuthenticated
    ELSE IF CommentErrors("POST", body) # ""
    THEN BadRequest(CommentErrors("POST", body))
    ELSE IF ~TargetExists(route, key) THEN NotFound
    ELSE IF \E pk \in get_queryset(Comment, route, key) :
               Comment[pk].author = user
    THEN BadRequest("You already commented.")
    ELSE /\ Comment' = Put(Comment, nextId.Comment,
                           create("Comment", perform_create(user, route, key)
                                             @@ validated_data("Comment", body)))
         /\ nextId' = [nextId EXCEPT !.Comment = @ + 1]
         /\ Render("Comment", 201, {nextId.Comment})
         /\ UNCHANGED <<Category, Hospital, Service, Rank, inflight>>

\* POST on a comment route: CommentRankBaseViewSet.perform_create
CreateComment(user, route, key, body) ==
    IF ~has_permission("POST", user) THEN NotAuthenticated
    ELSE IF CommentErrors("POST", body) # ""
    THEN BadRequest(CommentErrors("POST", body))
    ELSE IF ~TargetExists(route, key) THEN NotFound
    ELSE /\ Comment' = Put(Comment, nextId.Comment,
                           create("Comment", perform_create(user, route, key)
                                             @@ validated_data("Comment", body)))
         /\ nextId' = [nextId EXCEPT !.Comment = @ + 1]
         /\ Render("Comment", 201, {nextId.Comment})
         /\ UNCHANGED <<Category, Hospital, Service, Rank, inflight>>

\* PUT or PATCH on one comment: ModelViewSet.update, serializer.save()
UpdateComment(user, method, route, key, pk, body) ==
    IF ~has_permission(method, user) THEN NotAuthenticated
    ELSE IF ~TargetExists(route, key) THEN NotFound
    ELSE IF pk \notin get_queryset(Comment, route, key) THEN NotFound
    ELSE IF ~has_object_permission(method, user, Comment[pk])
    THEN PermissionDenied
    ELSE IF CommentErrors(method, body) # ""
    THEN BadRequest(CommentErrors(method, body))
    ELSE /\ Comment' = [Comment EXCEPT
                           ![pk] = update(@, validated_data("Comment", body))]
         /\ Render("Comment", 200, {pk})
         /\ UNCHANGED <<Category, Hospital, Service, Rank, nextId, inflight>>

\* ------------------------------------------------------------- concurrent requests
\* RankViewSet.create as the statements a worker sends to the database, which
\* runs each one atomically; no transaction spans them, and Rank.Meta declares
\* no unique constraint.
\*
\* The first statement is the SELECT of Rank.objects.get in perform_create.
\* What comes before it reads no rank.
BeginCreateRank(w, user, route, key, body) ==
    /\ inflight[w].pc = "idle"
    /\ IF ~has_permission("POST", user) THEN NotAuthenticated
       ELSE IF RankErrors("POST", body) # ""
       THEN BadRequest(RankErrors("POST", body))
       ELSE IF ~TargetExists(route, key) THEN NotFound
       ELSE IF Cardinality(ranked_by(Rank, user, route, key)) = 1
       THEN BadRequest("You already ranked.")
       ELSE IF Cardinality(ranked_by(Rank, user, route, key)) > 1
       THEN Respond(500, "MultipleObjectsReturned", {}) /\ NoWrite
       ELSE /\ inflight' = [inflight EXCEPT ![w] =
                   [pc |-> "insert",
                    row |-> create("Rank", perform_create(user, route, key)
                                           @@ validated_data("Rank", body)),
                    average |-> 0]]
            /\ UNCHANGED <<Category, Hospital, Service, Comment, Rank, nextId,
                           response>>

\* Rank.save: super().save(), the INSERT
InsertRank(w) ==
    /\ inflight[w].pc = "insert"
    /\ Rank' = Put(Rank, nextId.Rank, inflight[w].row)
    /\ nextId' = [nextId EXCEPT !.Rank = @ + 1]
    /\ inflight' = [inflight EXCEPT ![w].pc = "read",
                                    ![w].row = @ @@ [id |-> nextId.Rank]]
    /\ UNCHANGED <<Category, Hospital, Service, Comment, response>>

\* Rank.save: the SELECT of all_ranks, and the average of what it returns
ReadRanks(w) ==
    /\ inflight[w].pc = "read"
    /\ inflight' = [inflight EXCEPT
                       ![w].pc = "write",
                       ![w].average = average_rank(Rank, inflight[w].row.service,
                                                   inflight[w].row.hospital)]
    /\ UNCHANGED <<Category, Hospital, Service, Comment, Rank, nextId, response>>

\* Rank.save: obj.save(), the UPDATE of the target, and the response
WriteAverage(w) ==
    /\ inflight[w].pc = "write"
    /\ write_average(inflight[w].row.service, inflight[w].row.hospital,
                     inflight[w].average)
    /\ Render("Rank", 201, {inflight[w].row.id})
    /\ inflight' = [inflight EXCEPT ![w] = Idle]
    /\ UNCHANGED <<Category, Comment, Rank, nextId>>

\* ------------------------------------------------------------- filters
\* int(s) of a query parameter, a string given as its sequence of characters.
\* Of the strings of signs, digits and letters, int takes an optional sign and
\* one or more decimal digits, and raises ValueError for the others.
DigitValue ==
    ("0" :> 0) @@ ("1" :> 1) @@ ("2" :> 2) @@ ("3" :> 3) @@ ("4" :> 4) @@
    ("5" :> 5) @@ ("6" :> 6) @@ ("7" :> 7) @@ ("8" :> 8) @@ ("9" :> 9)

Unsigned(s) == IF s # <<>> /\ Head(s) \in {"-", "+"} THEN Tail(s) ELSE s

IsInt(s) ==
    /\ Unsigned(s) # <<>>
    /\ \A i \in DOMAIN Unsigned(s) : Unsigned(s)[i] \in DOMAIN DigitValue

RECURSIVE Magnitude(_)
Magnitude(digits) ==
    IF digits = <<>> THEN 0
    ELSE 10 * Magnitude(SubSeq(digits, 1, Len(digits) - 1))
         + DigitValue[digits[Len(digits)]]

int(s) == IF Head(s) = "-" THEN 0 - Magnitude(Unsigned(s))
          ELSE Magnitude(Unsigned(s))

\* queryset.filter((~Q(price=0) & Q(price__gte=min_price)
\*                  & Q(price__lte=max_price))
\*                 | (~Q(max_price=0) & Q(max_price__gte=min_price)
\*                    & Q(max_price__lte=max_price)))
\* a filter that matches a range when it overlaps the bounds
price_match_overlap(service, min_price, max_price) ==
    \/ service.price # 0 /\ service.price >= min_price
       /\ service.price <= max_price
    \/ service.max_price # 0 /\ service.max_price >= min_price
       /\ service.min_price <= max_price

price_match(service, min_price, max_price) ==
    \/ service.price # 0 /\ service.price >= min_price
       /\ service.price <= max_price
    \/ service.max_price # 0 /\ service.max_price >= min_price
       /\ service.max_price <= max_price

\* PriceFilter.filter_queryset with both parameters well-formed; `query` maps
\* the names of the query parameters given to their strings.
filter_queryset(query, queryset) ==
    IF "min_price" \in DOMAIN query /\ "max_price" \in DOMAIN query
    THEN IF int(query.min_price) < 1 \/ int(query.max_price) < int(query.min_price)
         THEN queryset
         ELSE {pk \in queryset : price_match(Service[pk], int(query.min_price),
                                             int(query.max_price))}
    ELSE queryset

\* int() raises ValueError in filter_queryset
filter_raises(query) ==
    /\ "min_price" \in DOMAIN query /\ "max_price" \in DOMAIN query
    /\ ~IsInt(query.min_price) \/ ~IsInt(query.max_price)

\* ------------------------------------------------------------- catalogue views
CatalogModels == {"Category", "Hospital", "Service"}

Objects(model) ==
    CASE model = "Category" -> Category
      [] model = "Hospital" -> DOMAIN Hospital
      [] model = "Service" -> DOMAIN Service

\* HospitalServiceBaseViewSet.get_queryset for the list action; `category` is
\* the slug the query gives, None when it gives none
category_queryset(model, category) ==
    IF model = "Category" \/ category = None THEN Objects(model)
    ELSE IF model = "Hospital"
    THEN {pk \in DOMAIN Hospital : Hospital[pk].category = category}
    ELSE {pk \in DOMAIN Service : Service[pk].category = category}

\* GET on categories, hospitals or services: ReadOnlyModelViewSet.list
ListCatalog(user, model, category, query) ==
    /\ NoWrite
    /\ IF model = "Service" /\ filter_raises(query)
       THEN Respond(500, "ValueError", {})
       ELSE Render(model, 200,
                   IF model = "Service"
                   THEN filter_queryset(query, category_queryset(model, category))
                   ELSE category_queryset(model, category))

\* GET on one category, hospital or service: ReadOnlyModelViewSet.retrieve
RetrieveCatalog(user, model, pk) ==
    IF pk \notin Objects(model) THEN NotFound
    ELSE Render(model, 200, {pk}) /\ NoWrite

\* POST, PUT, PATCH or DELETE on the catalogue: the read-only viewsets route
\* no such method
WriteCatalog(user, model, method) ==
    Respond(405, "Method not allowed.", {}) /\ NoWrite

\* ------------------------------------------------------------- clean_fields
\* Each clean_fields gives its ValidationError, "" when it raises none.
PRICE_MAX == 100000

\* PRICE_VALIDATORS without its MinValueValidator
PRICE_VALIDATORS_max(value) == value <= PRICE_MAX

PRICE_VALIDATORS(value) == value >= 0 /\ value <= PRICE_MAX

Service_clean_fields(price, min_price, max_price) ==
    IF ~(PRICE_VALIDATORS(price) /\ PRICE_VALIDATORS(min_price)
         /\ PRICE_VALIDATORS(max_price))
    THEN "price bounds"
    ELSE IF price = 0 /\ min_price = 0 /\ max_price = 0
    THEN "The price of the service did not determined."
    ELSE IF price = 0
    THEN IF max_price < min_price
         THEN "The max_price can not be less than min_price."
         ELSE ""
    ELSE IF max_price # 0 \/ min_price > 0
         THEN "You can only choose between determining these couple of fields."
         ELSE ""

CommentRankBaseModel_clean_fields(service, hospital) ==
    IF service = None /\ hospital = None
    THEN "Fields service and hospital are empty."
    ELSE IF service # None /\ hospital # None
    THEN "You can not determine both fields service and hospital."
    ELSE ""

\* Rank.objects.get(author=self.author, service=self.service,
\*                  hospital=self.hospital) finds a row
already_ranked(author, service, hospital) ==
    \E r \in DOMAIN Rank : /\ Rank[r].author = author
                           /\ Rank[r].service = service
                           /\ Rank[r].hospital = hospital

Rank_clean_fields(author, value, service, hospital) ==
    IF ~RankValueValid(value) THEN "value"
    ELSE IF CommentRankBaseModel_clean_fields(service, hospital) # ""
    THEN CommentRankBaseModel_clean_fields(service, hospital)
    ELSE IF already_ranked(author, service, hospital)
    THEN "You already ranked."
    ELSE ""

Comment_clean_fields(author, text, service, hospital) ==
    IF ~TextValid(text) THEN "text"
    ELSE CommentRankBaseModel_clean_fields(service, hospital)

\* ------------------------------------------------------------- admin
\* The admin site's add form of each registered model: the form's own checks
\* (a unique slug, a foreign key that names a stored row), then clean_fields,
\* then save.  A form in error is shown again (200) and saves nothing.
FormError(detail) == Respond(200, detail, {}) /\ NoWrite

AdminAddCategory(slug) ==
    IF slug \in Category THEN FormError("slug: already exists")
    ELSE /\ Category' = Category \cup {slug}
         /\ Respond(302, "", {})
         /\ UNCHANGED <<Hospital, Service, Comment, Rank, nextId, inflight>>

AdminAddHospital(slug, category) ==
    IF slug \in DOMAIN Hospital THEN FormError("slug: already exists")
    ELSE IF category \notin Category \cup {None}
    THEN FormError("category: not a valid choice")
    ELSE /\ Hospital' = Put(Hospital, slug,
                            [category |-> category, average_rank |-> 0])
         /\ Respond(302, "", {})
         /\ UNCHANGED <<Category, Service, Comment, Rank, nextId, inflight>>

AdminAddService(hospital, category, price, min_price, max_price) ==
    IF hospital \notin DOMAIN Hospital
    THEN FormError("hospital: not a valid choice")
    ELSE IF category \notin Category \cup {None}
    THEN FormError("category: not a valid choice")
    ELSE IF Service_clean_fields(price, min_price, max_price) # ""
    THEN FormError(Service_clean_fields(price, min_price, max_price))
    ELSE /\ Service' = Put(Service, nextId.Service,
                           [category |-> category, average_rank |-> 0,
                            hospital |-> hospital, price |-> price,
                            min_price |-> min_price, max_price |-> max_price])
         /\ nextId' = [nextId EXCEPT !.Service = @ + 1]
         /\ Respond(302, "", {})
         /\ UNCHANGED <<Category, Hospital, Comment, Rank, inflight>>

AdminAddRank(author, value, service, hospital) ==
    IF service \notin DOMAIN Service \cup {None}
    THEN FormError("service: not a valid choice")
    ELSE IF hospital \notin DOMAIN Hospital \cup {None}
    THEN FormError("hospital: not a valid choice")
    ELSE IF Rank_clean_fields(author, value, service, hospital) # ""
    THEN FormError(Rank_clean_fields(author, value, service, hospital))
    ELSE /\ Rank_save(nextId.Rank, [author |-> author, value |-> value,
                                    service |-> service, hospital |-> hospital])
         /\ nextId' = [nextId EXCEPT !.Rank = @ + 1]
         /\ Respond(302, "", {})
         /\ UNCHANGED <<Category, Comment, inflight>>

AdminAddComment(author, text, service, hospital) ==
    IF service \notin DOMAIN Service \cup {None}
    THEN FormError("service: not a valid choice")
    ELSE IF hospital \notin DOMAIN Hospital \cup {None}
    THEN FormError("hospital: not a valid choice")
    ELSE IF Comment_clean_fields(author, text, service, hospital) # ""
    THEN FormError(Comment_clean_fields(author, text, service, hospital))
    ELSE /\ Comment' = Put(Comment, nextId.Comment,
                           [author |-> author, text |-> text,
                            service |-> service, hospital |-> hospital])
         /\ nextId' = [nextId EXCEPT !.Comment = @ + 1]
         /\ Respond(302, "", {})
         /\ UNCHANGED <<Category, Hospital, Service, Rank, inflight>>

\* on_delete: the rows the deletion of `services` and `hospitals` takes along
cascade_services(hospitals) ==
    {pk \in DOMAIN Service : Service[pk].hospital \in hospitals}

\* the rows a cascade on the hospital key alone takes along
cascade_rows_hospitals(table, services, hospitals) ==
    {pk \in DOMAIN table : table[pk].hospital \in hospitals}

cascade_rows(table, services, hospitals) ==
    {pk \in DOMAIN table : \/ table[pk].service \in services
                           \/ table[pk].hospital \in hospitals}

\* on_delete=SET_NULL of the category of hospitals and services
set_null(table, category) ==
    [pk \in DOMAIN table |->
        IF table[pk].category = category
        THEN [table[pk] EXCEPT !.category = None] ELSE table[pk]]

AdminDeleteCategory(slug) ==
    /\ slug \in Category
    /\ Category' = Category \ {slug}
    /\ Hospital' = set_null(Hospital, slug)
    /\ Service' = set_null(Service, slug)
    /\ Respond(302, "", {})
    /\ UNCHANGED <<Comment, Rank, nextId, inflight>>

AdminDeleteService(pk) ==
    /\ pk \in DOMAIN Service
    /\ Service' = Drop(Service, {pk})
    /\ Comment' = Drop(Comment, cascade_rows(Comment, {pk}, {}))
    /\ Rank' = Drop(Rank, cascade_rows(Rank, {pk}, {}))
    /\ Respond(302, "", {})
    /\ UNCHANGED <<Category, Hospital, nextId, inflight>>

AdminDeleteHospital(slug) ==
    /\ slug \in DOMAIN Hospital
    /\ Hospital' = Drop(Hospital, {slug})
    /\ Service' = Drop(Service, cascade_services({slug}))
    /\ Comment' = Drop(Comment,
                       cascade_rows(Comment, cascade_services({slug}), {slug}))
    /\ Rank' = Drop(Rank, cascade_rows(Rank, cascade_services({slug}), {slug}))
    /\ Respond(302, "", {})
    /\ UNCHANGED <<Category, nextId, inflight>>

\* ------------------------------------------------------------- inputs
NoFields == [f \in {} |-> 0]

\* a body that also carries the read-only fields, as a client may try: user 1
\* as the author, and both targets
Forged(body) == body @@ [author |-> 1, service |-> 1, hospital |-> 1]

RankBodies == {NoFields, [value |-> 3], [value |-> 11], Forged([value |-> 7])}

CommentBodies == {NoFields, [text |-> "bad"], [text |-> ""], Forged([text |-> "good"])}

\* PATCH differs from PUT in what it makes of a field left out
Updates(bodies) == {<<"PUT", b>> : b \in bodies} \cup {<<"PATCH", NoFields>>}

\* the comments and ranks created so far
Created == (nextId.Comment - 1) + (nextId.Rank - 1)

\* a request that creates a row is tried only while fewer than `most` were
Within(most) == Created < most \/ response'.status \notin {201, 302}

\* ------------------------------------------------------------- specification
\* Spec: the comment and rank endpoints and the catalogue's, on a database
\* that starts empty and to which the staff adds one hospital and its service.
Init ==
    /\ Category = {}
    /\ Hospital = EmptyTable
    /\ Service = EmptyTable
    /\ Comment = EmptyTable
    /\ Rank = EmptyTable
    /\ nextId = [Service |-> 1, Comment |-> 1, Rank |-> 1]
    /\ response = [status |-> 0, detail |-> "", data |-> {}]
    /\ inflight = [w \in Workers |-> Idle]

Next ==
    \/ \E user \in Callers, route \in Routes, body \in RankBodies :
         CreateRank(user, route, 1, body) /\ Within(MaxRows)
    \/ \E user \in Callers, route \in Routes, pk \in 1..MaxRows,
          u \in Updates(RankBodies) :
         UpdateRank(user, u[1], route, 1, pk, u[2])
    \/ \E user \in Callers, route \in Routes, body \in CommentBodies :
         CreateComment(user, route, 1, body) /\ Within(MaxRows)
    \/ \E user \in Callers, route \in Routes, pk \in 1..MaxRows,
          u \in Updates(CommentBodies) :
         UpdateComment(user, u[1], route, 1, pk, u[2])
    \/ \E user \in Callers, model \in {"Comment", "Rank"}, route \in Routes :
         List(user, model, route, 1)
    \/ \E user \in Callers, model \in {"Comment", "Rank"}, route \in Routes,
          pk \in 1..MaxRows :
         Retrieve(user, model, route, 1, pk)
    \/ \E user \in Callers, model \in {"Comment", "Rank"}, route \in Routes,
          pk \in 1..MaxRows :
         Destroy(user, model, route, 1, pk)
    \/ \E user \in Callers, model \in CatalogModels :
         ListCatalog(user, model, None, NoFields)
    \/ \E user \in Callers, model \in CatalogModels :
         RetrieveCatalog(user, model, 1)
    \/ \E user \in Callers, model \in CatalogModels,
          method \in {"POST", "DELETE"} :
         WriteCatalog(user, model, method)
    \/ AdminAddHospital(1, None)
    \/ nextId.Service = 1 /\ AdminAddService(1, None, 40, 0, 0)
    \/ \E author \in Users, service \in {None, 1}, hospital \in {None, 1} :
         AdminAddRank(author, 3, service, hospital) /\ Within(MaxRows)
    \/ \E author \in Users, service \in {None, 1}, hospital \in {None, 1} :
         AdminAddComment(author, "bad", service, hospital) /\ Within(MaxRows)

Spec == Init /\ [][Next]_vars

\* A database in which the staff has added hospital 1 and its service 1.
OneHospitalOneService ==
    /\ Category = {}
    /\ Hospital = (1 :> [category |-> None, average_rank |-> 0])
    /\ Service = (1 :> [category |-> None, average_rank |-> 0, hospital |-> 1,
                        price |-> 40, min_price |-> 0, max_price |-> 0])
    /\ Comment = EmptyTable
    /\ Rank = EmptyTable
    /\ nextId = [Service |-> 2, Comment |-> 1, Rank |-> 1]
    /\ response = [status |-> 0, detail |-> "", data |-> {}]
    /\ inflight = [w \in Workers |-> Idle]

\* SpecDuplicate: the users rank hospital 1 and service 1, again and again, and
\* withdraw their ranks.
NextDuplicate ==
    \/ \E user \in Users, route \in Routes, value \in {3, 4, 11} :
         CreateRank(user, route, 1, [value |-> value]) /\ Within(DupRanks)
    \/ \E user \in Users, route \in Routes, pk \in 1..DupRanks :
         Destroy(user, "Rank", route, 1, pk)

SpecDuplicate == OneHospitalOneService /\ [][NextDuplicate]_vars

\* SpecLedger: the users rank hospital 1 and service 1 and change their ranks,
\* one request at a time.
Rankers == 1..LedgerUsers

NextLedger ==
    \/ \E user \in Rankers, route \in Routes, value \in {0, 1} :
         CreateRank(user, route, 1, [value |-> value]) /\ Within(LedgerRanks)
    \/ \E user \in Rankers, route \in Routes, pk \in 1..LedgerRanks,
          value \in {0, 1} :
         UpdateRank(user, "PUT", route, 1, pk, [value |-> value])

SpecLedger == OneHospitalOneService /\ [][NextLedger]_vars

\* SpecComment: the users comment on hospital 1 and service 1.
NextComment ==
    \/ \E user \in Users, route \in Routes, text \in {"good", "bad"} :
         CreateComment(user, route, 1, [text |-> text]) /\ Within(MaxComments)
    \/ \E user \in Users, route \in Routes, pk \in 1..MaxComments :
         UpdateComment(user, "PUT", route, 1, pk, [text |-> "bad"])
    \/ \E user \in Users, route \in Routes, pk \in 1..MaxComments :
         Destroy(user, "Comment", route, 1, pk)

SpecComment == OneHospitalOneService /\ [][NextComment]_vars

\* SpecRace: the workers serve createRank requests on hospital 1 and service 1
\* at the same time.
Started ==
    (nextId.Rank - 1) + Cardinality({w \in Workers : inflight[w].pc = "insert"})

NextRace ==
    \/ \E w \in Workers, user \in Users, route \in Routes, value \in {0, 1} :
         /\ BeginCreateRank(w, user, route, 1, [value |-> value])
         /\ Started < RaceRanks \/ inflight' = inflight
    \/ \E w \in Workers : InsertRank(w)
    \/ \E w \in Workers : ReadRanks(w)
    \/ \E w \in Workers : WriteAverage(w)

SpecRace == OneHospitalOneService /\ [][NextRace]_vars

\* SpecPrice: the staff adds services to hospital 1, and anyone lists the
\* services by price.
Prices == {0 - 1, 0, 40, PRICE_MAX, PRICE_MAX + 1}

QueryValues ==
    {<<"x">>, <<"0">>, <<"1">>, <<"4", "0">>, <<"6", "0">>, <<"7", "0">>}

Queries ==
    {NoFields} \cup {[min_price |-> v] : v \in QueryValues}
    \cup {[max_price |-> v] : v \in QueryValues}
    \cup {[min_price |-> v, max_price |-> w] : v, w \in QueryValues}

OneHospital ==
    /\ Category = {}
    /\ Hospital = (1 :> [category |-> None, average_rank |-> 0])
    /\ Service = EmptyTable
    /\ Comment = EmptyTable
    /\ Rank = EmptyTable
    /\ nextId = [Service |-> 1, Comment |-> 1, Rank |-> 1]
    /\ response = [status |-> 0, detail |-> "", data |-> {}]
    /\ inflight = [w \in Workers |-> Idle]

NextPrice ==
    \/ \E price \in Prices, min_price \in Prices, max_price \in Prices :
         /\ AdminAddService(1, None, price, min_price, max_price)
         /\ nextId.Service <= MaxServices \/ response'.status # 302
    \/ \E query \in Queries : ListCatalog(AnonymousUser, "Service", None, query)

SpecPrice == OneHospital /\ [][NextPrice]_vars

\* SpecCatalog: the staff builds the catalogue and deletes from it, and a user
\* comments and ranks what is stored.
Slugs == 1..CatalogHospitals

NextCatalog ==
    \/ AdminAddCategory(1)
    \/ \E slug \in Slugs, category \in {None, 1} : AdminAddHospital(slug, category)
    \/ \E hospital \in Slugs, category \in {None, 1} :
         /\ AdminAddService(hospital, category, 40, 0, 0)
         /\ nextId.Service <= CatalogServices \/ response'.status # 302
    \/ \E route \in Routes, key \in Slugs :
         CreateRank(1, route, key, [value |-> 3]) /\ Within(CatalogRows)
    \/ \E route \in Routes, key \in Slugs :
         CreateComment(1, route, key, [text |-> "good"]) /\ Within(CatalogRows)
    \/ AdminDeleteCategory(1)
    \/ \E pk \in 1..CatalogServices : AdminDeleteService(pk)
    \/ \E slug \in Slugs : AdminDeleteHospital(slug)

SpecCatalog == Init /\ [][NextCatalog]_vars

\* SpecFrame: two hospitals with a service each, and every request of the API
\* on them; some bodies carry an average_rank.
FrameKeys == {1, 2}

TwoHospitalsTwoServices ==
    /\ Category = {}
    /\ Hospital = [k \in FrameKeys |-> [category |-> None, average_rank |-> 0]]
    /\ Service = [k \in FrameKeys |->
                     [category |-> None, average_rank |-> 0, hospital |-> k,
                      price |-> 40, min_price |-> 0, max_price |-> 0]]
    /\ Comment = EmptyTable
    /\ Rank = EmptyTable
    /\ nextId = [Service |-> 3, Comment |-> 1, Rank |-> 1]
    /\ response = [status |-> 0, detail |-> "", data |-> {}]
    /\ inflight = [w \in Workers |-> Idle]

\* an unauthenticated caller and a user
FrameCallers == {AnonymousUser, 1}

FrameRankBodies ==
    {[value |-> 3], [value |-> 11], [value |-> 8, average_rank |-> 99]}

FrameCommentBodies == {[text |-> ""], [text |-> "good", average_rank |-> 99]}

NextFrame ==
    \/ \E user \in FrameCallers, route \in Routes, key \in FrameKeys,
          body \in FrameRankBodies :
         CreateRank(user, route, key, body) /\ Within(FrameRows)
    \/ \E user \in FrameCallers, method \in {"PUT", "PATCH"}, route \in Routes,
          key \in FrameKeys, pk \in 1..FrameRows, body \in FrameRankBodies :
         UpdateRank(user, method, route, key, pk, body)
    \/ \E user \in FrameCallers, route \in Routes, key \in FrameKeys,
          body \in FrameCommentBodies :
         CreateComment(user, route, key, body) /\ Within(FrameRows)
    \/ \E user \in FrameCallers, method \in {"PUT", "PATCH"}, route \in Routes,
          key \in FrameKeys, pk \in 1..FrameRows, body \in FrameCommentBodies :
         UpdateComment(user, method, route, key, pk, body)
    \/ \E user \in FrameCallers, route \in Routes, key \in FrameKeys,
          pk \in 1..FrameRows :
         Destroy(user, "Comment", route, key, pk)
    \/ \E user \in FrameCallers, model \in {"Comment", "Rank"}, route \in Routes,
          key \in FrameKeys :
         List(user, model, route, key)
    \/ \E user \in FrameCallers, model \in {"Comment", "Rank"}, route \in Routes,
          key \in FrameKeys, pk \in 1..FrameRows :
         Retrieve(user, model, route, key, pk)
    \/ \E user \in FrameCallers, model \in CatalogModels :
         ListCatalog(user, model, None, NoFields)
    \/ \E user \in FrameCallers, model \in CatalogModels, pk \in FrameKeys :
         RetrieveCatalog(user, model, pk)
    \/ \E user \in FrameCallers, model \in CatalogModels,
          method \in {"POST", "PUT", "PATCH", "DELETE"} :
         WriteCatalog(user, model, method)

SpecFrame == TwoHospitalsTwoServices /\ [][NextFrame]_vars

\* ------------------------------------------------------------- properties
\* what the properties say of a target, read off the tables
TargetRow(route, key) == IF route = "services" THEN Service[key] ELSE Hospital[key]

RanksOn(route, key) ==
    {pk \in DOMAIN Rank :
        IF route = "services" THEN Rank[pk].service = key /\ Rank[pk].hospital = None
        ELSE Rank[pk].hospital = key /\ Rank[pk].service = None}

HasRank(user, route, key) ==
    \E pk \in RanksOn(route, key) : Rank[pk].author = user

RECURSIVE SumOfValues(_)
SumOfValues(pks) ==
    IF pks = {} THEN 0
    ELSE LET pk == CHOOSE x \in pks : TRUE
         IN  Rank[pk].value + SumOfValues(pks \ {pk})

Abs(x) == IF x < 0 THEN 0 - x ELSE x

\* `tenths` is a multiple of 0.1 nearest to the mean of the ranks `pks`
NearestTenth(tenths, pks) ==
    2 * Abs(10 * SumOfValues(pks) - tenths * Cardinality(pks)) <= Cardinality(pks)

C2_AverageIsRoundedMean ==
    \A route \in Routes :
        IF RanksOn(route, 1) = {} THEN TargetRow(route, 1).average_rank = 0
        ELSE NearestTenth(TargetRow(route, 1).average_rank, RanksOn(route, 1))

\* three ranks of sum 2 on the service, 0.7 its average, the last request an
\* update
C2_Witness ==
    /\ Cardinality(RanksOn("services", 1)) = 3
    /\ SumOfValues(RanksOn("services", 1)) = 2
    /\ Service[1].average_rank = 7
    /\ response.status = 200

\* C4, as stated: at every moment, whatever createRank requests run at the same
\* time, no user has two ranks on one hospital or on one service.
C4_AtMostOneRankPerPair ==
    \A u \in Users, route \in Routes :
        Cardinality({pk \in RanksOn(route, 1) : Rank[pk].author = u}) <= 1

FixedMode(price, min_price, max_price) ==
    price > 0 /\ min_price = 0 /\ max_price = 0

RangeMode(price, min_price, max_price) ==
    /\ price = 0 /\ 0 <= min_price /\ min_price <= max_price
    /\ ~(min_price = 0 /\ max_price = 0)

\* the add form stored the service it was given
Accepted(price, min_price, max_price) ==
    /\ response'.status = 302
    /\ DOMAIN Service' = DOMAIN Service \cup {nextId.Service}
    /\ Service'[nextId.Service].price = price
    /\ Service'[nextId.Service].min_price = min_price
    /\ Service'[nextId.Service].max_price = max_price

\* C5, as stated: a service's prices are accepted if and only if they are in
\* fixed mode (price > 0, min_price = max_price = 0) or in range mode
\* (price = 0, 0 <= min_price <= max_price, not both 0).
C5_AcceptedIffMode ==
    [][\A price \in Prices, min_price \in Prices, max_price \in Prices :
          AdminAddService(1, None, price, min_price, max_price)
          => (Accepted(price, min_price, max_price)
              <=> \/ FixedMode(price, min_price, max_price)
                  \/ RangeMode(price, min_price, max_price))]_vars

\* C5, amended: a service's prices are accepted if and only if none of them is
\* above 100000 and they are in fixed mode or in range mode; what is refused is
\* not stored, and every stored service is in one of the two modes.
C5_AcceptedIffModeUpTo100000 ==
    /\ [][\A price \in Prices, min_price \in Prices, max_price \in Prices :
             AdminAddService(1, None, price, min_price, max_price)
             => /\ Accepted(price, min_price, max_price)
                   <=> /\ price <= 100000 /\ min_price <= 100000
                       /\ max_price <= 100000
                       /\ \/ FixedMode(price, min_price, max_price)
                          \/ RangeMode(price, min_price, max_price)
                /\ Accepted(price, min_price, max_price)
                   \/ Service' = Service]_vars
    /\ [](\A pk \in DOMAIN Service :
             \/ FixedMode(Service[pk].price, Service[pk].min_price,
                          Service[pk].max_price)
             \/ RangeMode(Service[pk].price, Service[pk].min_price,
                          Service[pk].max_price))

\* a service of each mode is stored, and prices above 100000 were just refused
C5_Witness ==
    /\ \E pk \in DOMAIN Service : Service[pk].price = PRICE_MAX
    /\ \E pk \in DOMAIN Service :
          Service[pk].price = 0 /\ Service[pk].min_price = 0
          /\ Service[pk].max_price = 40
    /\ response.status = 200 /\ response.detail = "price bounds"

\* the integers the query strings write
Bound ==
    (<<"0">> :> 0) @@ (<<"1">> :> 1) @@ (<<"4", "0">> :> 40) @@
    (<<"6", "0">> :> 60) @@ (<<"7", "0">> :> 70)

\* C6: the price filter returns all the services when a bound is absent, or
\* the lower bound is under 1, or the upper bound is under the lower; else it
\* returns the services whose price is not 0 and within the bounds or whose
\* max_price is not 0 and within the bounds.  It returns stored services only
\* and changes none.
C6_PriceFilter ==
    [][\A query \in Queries :
          ListCatalog(AnonymousUser, "Service", None, query)
          => /\ Service' = Service
             /\ response'.data \subseteq DOMAIN Service
             /\ DOMAIN query # {"min_price", "max_price"}
                => response'.status = 200 /\ response'.data = DOMAIN Service
             /\ (/\ DOMAIN query = {"min_price", "max_price"}
                 /\ query.min_price \in DOMAIN Bound
                 /\ query.max_price \in DOMAIN Bound)
                => LET bound_min == Bound[query.min_price]
                       bound_max == Bound[query.max_price]
                   IN  /\ response'.status = 200
                       /\ response'.data =
                            IF bound_min < 1 \/ bound_max < bound_min
                            THEN DOMAIN Service
                            ELSE {pk \in DOMAIN Service :
                                    \/ /\ Service[pk].price # 0
                                       /\ bound_min <= Service[pk].price
                                       /\ Service[pk].price <= bound_max
                                    \/ /\ Service[pk].max_price # 0
                                       /\ bound_min <= Service[pk].max_price
                                       /\ Service[pk].max_price <= bound_max}]_vars

\* of a range from 40 to 100000 and a range from 0 to 40, bounds returned the
\* second alone: they held 40, and the first matched on its max_price only
C6_Witness ==
    /\ DOMAIN Service = {1, 2}
    /\ Service[1].min_price = 40 /\ Service[1].max_price = PRICE_MAX
    /\ Service[2].min_price = 0 /\ Service[2].max_price = 40
    /\ response.status = 200 /\ response.data = {2}

\* every foreign key to a hospital or a service names a stored one
RefIntegrity ==
    /\ \A pk \in DOMAIN Service : Service[pk].hospital \in DOMAIN Hospital
    /\ \A pk \in DOMAIN Comment :
          /\ Comment[pk].service \in DOMAIN Service \cup {None}
          /\ Comment[pk].hospital \in DOMAIN Hospital \cup {None}
    /\ \A pk \in DOMAIN Rank :
          /\ Rank[pk].service \in DOMAIN Service \cup {None}
          /\ Rank[pk].hospital \in DOMAIN Hospital \cup {None}

\* the table after its rows of `category` lost it, and nothing else changed
CategoryNulled(table, category) ==
    [pk \in DOMAIN table |->
        [f \in DOMAIN table[pk] |->
            IF f = "category" /\ table[pk][f] = category THEN None
            ELSE table[pk][f]]]

\* C10: the deletion of a service leaves no comment or rank of it; the deletion
\* of a hospital leaves none of its services and no comment or rank of it or of
\* them; every service, comment and rank names stored targets only; and the
\* deletion of a category deletes no hospital and no service and changes only
\* their category, to none.
C10_Cascade ==
    /\ []RefIntegrity
    /\ [][\A pk \in 1..CatalogServices :
             AdminDeleteService(pk)
             => /\ \A c \in DOMAIN Comment' : Comment'[c].service # pk
                /\ \A r \in DOMAIN Rank' : Rank'[r].service # pk]_vars
    /\ [][\A slug \in Slugs :
             AdminDeleteHospital(slug)
             => LET gone == {pk \in DOMAIN Service : Service[pk].hospital = slug}
                IN  /\ DOMAIN Service' \cap gone = {}
                    /\ \A c \in DOMAIN Comment' :
                          /\ Comment'[c].hospital # slug
                          /\ Comment'[c].service \notin gone
                    /\ \A r \in DOMAIN Rank' :
                          /\ Rank'[r].hospital # slug
                          /\ Rank'[r].service \notin gone]_vars
    /\ [][AdminDeleteCategory(1)
             => /\ Hospital' = CategoryNulled(Hospital, 1)
                /\ Service' = CategoryNulled(Service, 1)]_vars

\* hospital 1 was deleted with its service, and with them the two rows
\* that were made of comments and ranks
C10_Witness ==
    /\ response.status = 302
    /\ DOMAIN Hospital = {} /\ DOMAIN Service = {} /\ nextId.Service = 2
    /\ DOMAIN Rank = {} /\ DOMAIN Comment = {}
    /\ nextId.Rank = 2 /\ nextId.Comment = 2

\* C3: after a rank on target t is deleted by its author, the average_rank of
\* t is the rounded mean of the ranks that remain on t, and 0 when none does.
C3_AverageFollowsDelete ==
    [][\A u \in Users, route \in Routes, pk \in 1..MaxRows :
          (Destroy(u, "Rank", route, 1, pk) /\ response'.status = 204)
          => IF RanksOn(route, 1)' = {}
             THEN TargetRow(route, 1)'.average_rank = 0
             ELSE NearestTenth(TargetRow(route, 1).average_rank,
                               RanksOn(route, 1))']_vars

ExactlyOneTarget(row) == (row.service = None) # (row.hospital = None)

SameTarget(old, new) == new.service = old.service /\ new.hospital = old.hospital

\* C7: every stored comment and every stored rank has exactly one of hospital
\* and service set, and no step changes the hospital or the service of a
\* comment or rank that it leaves stored.
C7_ExactlyOneTarget ==
    /\ [](/\ \A pk \in DOMAIN Comment : ExactlyOneTarget(Comment[pk])
          /\ \A pk \in DOMAIN Rank : ExactlyOneTarget(Rank[pk]))
    /\ [][/\ \A pk \in DOMAIN Comment \cap DOMAIN Comment' :
                SameTarget(Comment[pk], Comment'[pk])
          /\ \A pk \in DOMAIN Rank \cap DOMAIN Rank' :
                SameTarget(Rank[pk], Rank'[pk])]_vars

\* a rank of the service, made or updated from the body that names a hospital
\* too, and a request since then
C7_Witness ==
    /\ \E pk \in DOMAIN Rank :
          Rank[pk].value = 7 /\ Rank[pk].service = 1 /\ Rank[pk].hospital = None
    /\ response.status = 403

\* the read requests a caller can make
ReadRequest(caller) ==
    \/ \E model \in {"Comment", "Rank"}, route \in Routes :
          List(caller, model, route, 1)
    \/ \E model \in {"Comment", "Rank"}, route \in Routes, pk \in 1..MaxRows :
          Retrieve(caller, model, route, 1, pk)
    \/ \E model \in CatalogModels : ListCatalog(caller, model, None, NoFields)
    \/ \E model \in CatalogModels : RetrieveCatalog(caller, model, 1)

\* the create, update and delete requests a caller can make
WriteRequest(caller) ==
    \/ \E route \in Routes, body \in RankBodies :
          CreateRank(caller, route, 1, body)
    \/ \E route \in Routes, body \in CommentBodies :
          CreateComment(caller, route, 1, body)
    \/ \E route \in Routes, pk \in 1..MaxRows, u \in Updates(RankBodies) :
          UpdateRank(caller, u[1], route, 1, pk, u[2])
    \/ \E route \in Routes, pk \in 1..MaxRows, u \in Updates(CommentBodies) :
          UpdateComment(caller, u[1], route, 1, pk, u[2])
    \/ \E model \in {"Comment", "Rank"}, route \in Routes, pk \in 1..MaxRows :
          Destroy(caller, model, route, 1, pk)
    \/ \E model \in CatalogModels, method \in {"POST", "DELETE"} :
          WriteCatalog(caller, model, method)

\* an update or delete of row pk of `model` on its own route by `caller`
ChangeOf(caller, model, route, pk) ==
    \/ Destroy(caller, model, route, 1, pk)
    \/ /\ model = "Rank"
       /\ \E u \in Updates(RankBodies) :
             UpdateRank(caller, u[1], route, 1, pk, u[2])
    \/ /\ model = "Comment"
       /\ \E u \in Updates(CommentBodies) :
             UpdateComment(caller, u[1], route, 1, pk, u[2])

\* Every read is answered 200, or 404 when what it names is not stored,
\* whoever the caller.
ReadsSucceed ==
    [][\A caller \in Callers :
          ReadRequest(caller) => response'.status \in {200, 404}]_vars

\* No request of an unauthenticated caller changes a table.
AnonymousWritesNothing ==
    [][WriteRequest(AnonymousUser)
          => UNCHANGED <<Category, Hospital, Service, Comment, Rank>>]_vars

\* An update or delete by a user who is not the author is answered 403 and
\* changes no table.
OnlyAuthorChanges ==
    [][\A u \in Users, route \in Routes, pk \in 1..MaxRows :
          /\ (/\ pk \in get_queryset(Rank, route, 1)
              /\ Rank[pk].author # u
              /\ ChangeOf(u, "Rank", route, pk))
             => response'.status = 403 /\ Rank' = Rank
                /\ Hospital' = Hospital /\ Service' = Service
          /\ (/\ pk \in get_queryset(Comment, route, 1)
              /\ Comment[pk].author # u
              /\ ChangeOf(u, "Comment", route, pk))
             => response'.status = 403 /\ Comment' = Comment]_vars

\* The author of a row a request creates is the requesting user, and the
\* author of a stored row never changes.
AuthorIsRequester ==
    [][/\ \A u \in Users, route \in Routes :
             /\ (\E body \in RankBodies : CreateRank(u, route, 1, body))
                => \A pk \in DOMAIN Rank' \ DOMAIN Rank : Rank'[pk].author = u
             /\ (\E body \in CommentBodies : CreateComment(u, route, 1, body))
                => \A pk \in DOMAIN Comment' \ DOMAIN Comment :
                      Comment'[pk].author = u
       /\ \A pk \in DOMAIN Rank \cap DOMAIN Rank' :
             Rank'[pk].author = Rank[pk].author
       /\ \A pk \in DOMAIN Comment \cap DOMAIN Comment' :
             Comment'[pk].author = Comment[pk].author]_vars

\* C8: reads succeed for every caller; an unauthenticated caller's create,
\* update or delete changes nothing; an update or delete by another user than
\* the author is denied and changes nothing; the author of a created row is
\* the requesting user and never changes.
C8_Authorization ==
    ReadsSucceed /\ AnonymousWritesNothing /\ OnlyAuthorChanges
    /\ AuthorIsRequester

\* C8 without its reads: the three statements on writes.
C8_WritesAuthorized ==
    AnonymousWritesNothing /\ OnlyAuthorChanges /\ AuthorIsRequester

CommentsBy(user, route, key) ==
    {pk \in DOMAIN Comment :
        /\ Comment[pk].author = user
        /\ IF route = "services" THEN Comment[pk].service = key
           ELSE Comment[pk].hospital = key}

AllCompleted == \A w \in Workers : inflight[w].pc = "idle"

\* no user has two ranks on one target
OneRankEach ==
    \A u \in Users, route \in Routes :
        Cardinality({pk \in RanksOn(route, 1) : Rank[pk].author = u}) <= 1

\* C11: whatever the interleaving of the statements of the createRank requests
\* that different users have served at the same time, once all of them have
\* completed the average_rank of every target is the rounded mean of the ranks
\* stored for it.
C11_NoLostUpdate ==
    (AllCompleted /\ OneRankEach)
    => \A route \in Routes :
          IF RanksOn(route, 1) = {} THEN TargetRow(route, 1).average_rank = 0
          ELSE NearestTenth(TargetRow(route, 1).average_rank, RanksOn(route, 1))

\* a rank create or update on the target that was accepted
RankedTarget(route, key) ==
    /\ response'.status \in {200, 201}
    /\ \E user \in FrameCallers, body \in FrameRankBodies :
          \/ CreateRank(user, route, key, body)
          \/ \E method \in {"PUT", "PATCH"}, pk \in 1..FrameRows :
                UpdateRank(user, method, route, key, pk, body)

\* C12: the average_rank of a hospital or service changes only in an accepted
\* rank create or update on that very target.  So a rank create or update
\* leaves the average_rank of every other target; a comment create, update or
\* delete, a refused rank request, a list, a retrieve and a write on the
\* catalogue leave every average_rank; and an average_rank in a body sets none.
C12_OnlyRecomputeWrites ==
    [][\A route \in Routes, key \in FrameKeys :
          TargetRow(route, key)'.average_rank # TargetRow(route, key).average_rank
          => RankedTarget(route, key)]_vars

\* service 2 was ranked 8 by a body that carried average_rank 99, and a comment
\* was made: the average of service 2 is 8.0 and the other three are 0
C12_Witness ==
    /\ \E pk \in DOMAIN Rank : Rank[pk].service = 2 /\ Rank[pk].value = 8
    /\ DOMAIN Comment # {}
    /\ Service[2].average_rank = 80 /\ Service[1].average_rank = 0
    /\ Hospital[1].average_rank = 0 /\ Hospital[2].average_rank = 0

====
